---- MODULE Spec2Model ----
(***************************************************************************)
(* Model of src/src/lib.rs: a typed layer over the Windows property        *)
(* system.  FileProperties::new opens a property store for a path,         *)
(* get_prop / set_prop / commit / get_prop_count work on it, and Drop      *)
(* releases it.  The host (COM, the shell property system) is modelled at  *)
(* the calls the code makes: each host call is an operator giving the SET  *)
(* of results the call can report, and the handlers choose among them.     *)
(* One thread, blocking calls: every handler is one atomic action.         *)
(***************************************************************************)
EXTENDS Integers, Sequences, FiniteSets, TLC

\* ------------------------------------------------------------------ bounds
MaxLen == 1        \* longest string (in UTF-16 units) drawn as an input
MaxVec == 1        \* longest Vec<&str> drawn as an input of set_prop
MaxSessions == 2   \* FileProperties values ever constructed
MaxOps == 4        \* operations of one run
MaxOpsRoundTrip == 5  \* operations of one run of the round-trip scenario

\* --------------------------------------------------------------- strings
\* A string is a sequence of UTF-16 units, each named by a TLA+ string
\* ("eacute" is the non-ASCII letter U+00E9).
\* Chars are units a Rust String can hold; Surrogate is an unpaired
\* surrogate, which only a wide string in host memory can hold.
Chars == {"a", "eacute", ";", " "}
Surrogate == "uD800"

SeqsUpTo(S, n) == UNION {[1..k -> S] : k \in 0..n}
RustStrings == SeqsUpTo(Chars, MaxLen)

ValidUtf16(w) == \A i \in 1..Len(w) : w[i] # Surrogate

RECURSIVE SplitAt(_, _)
SplitAt(w, sep) ==
  IF w = <<>> THEN << <<>> >>
  ELSE LET rest == SplitAt(Tail(w), sep) IN
       IF Head(w) = sep THEN << <<>> >> \o rest
       ELSE << <<Head(w)>> \o Head(rest) >> \o Tail(rest)

RECURSIVE TrimLeft(_)
TrimLeft(w) == IF w # <<>> /\ Head(w) = " " THEN TrimLeft(Tail(w)) ELSE w

RECURSIVE Reverse(_)
Reverse(w) == IF w = <<>> THEN <<>> ELSE Reverse(Tail(w)) \o <<Head(w)>>

Trim(w) == Reverse(TrimLeft(Reverse(TrimLeft(w))))

MapTrim(v) == [i \in 1..Len(v) |-> Trim(v[i])]
DropEmpty(v) == SelectSeq(v, LAMBDA x : x # <<>>)

RECURSIVE JoinList(_)
JoinList(v) ==
  IF v = <<>> THEN <<>>
  ELSE IF Len(v) = 1 THEN v[1]
  ELSE v[1] \o <<";", " ">> \o JoinList(Tail(v))

\* -------------------------------------------------------------- variants
\* PROPVARIANT: a type tag and its payload (one record shape for all tags).
VEmpty == [vt |-> "VT_EMPTY", str |-> <<>>, num |-> 0, vec |-> <<>>]
VStr(w) == [vt |-> "VT_LPWSTR", str |-> w, num |-> 0, vec |-> <<>>]
VUI4(n) == [vt |-> "VT_UI4", str |-> <<>>, num |-> n, vec |-> <<>>]
VVec(v) == [vt |-> "VT_VECTOR|VT_LPWSTR", str |-> <<>>, num |-> 0, vec |-> v]
VIllegal == [vt |-> "VT_ILLEGAL", str |-> <<>>, num |-> 0, vec |-> <<>>]

DEFAULT_PROP_STRING == <<>>
DEFAULT_PROP_U32 == 0

\* ------------------------------------------------------------ host calls
\* Each host call gives the set of results it can report at that call.
HResults == {"Ok", "Err"}

\* Path::exists (line 125): the filesystem holds one file.
ExistingPaths == {"video.mp4"}
Paths == ExistingPaths \cup {"missing.mp4"}
Exists(path) == path \in ExistingPaths

\* GETPROPERTYSTOREFLAGS given to new(); None selects GPS_READWRITE.
Flags == {"GPS_DEFAULT", "GPS_READWRITE"}
FlagArgs == {"None"} \cup Flags
EffectiveFlag(flag) == IF flag = "None" THEN "GPS_READWRITE" ELSE flag

\* Property names, and the canonical type of each key the host knows.
KnownNames == {"System.Media.UniqueFileIdentifier", "System.Generic.Integer",
               "System.Author"}
Names == KnownNames \cup {"Not.A.Property"}
KeyType(key) ==
  CASE key = "System.Media.UniqueFileIdentifier" -> "String"
    [] key = "System.Generic.Integer" -> "UInt32"
    [] key = "System.Author" -> "StringVector"

CoInitializeEx == HResults
CreateBindCtx == HResults
SHGetPropertyStoreFromParsingName(path) ==
  IF Exists(path) THEN HResults ELSE {"Err"}
PSGetPropertyKeyFromName(name) == IF name \in KnownNames THEN {"Ok"} ELSE {"Err"}
GetValue == HResults
GetCount == HResults
SetValue(flag) == IF flag = "GPS_READWRITE" THEN HResults ELSE {"Err"}
Commit(flag) == IF flag = "GPS_READWRITE" THEN HResults ELSE {"Err"}
ReleaseBoundObjects == HResults

\* PropVariantToStringWithDefault returns a pointer and copies nothing: into
\* the variant's own string for VT_LPWSTR, to the default otherwise.
PropVariantToStringWithDefault(prop, default) ==
  IF prop.vt = "VT_LPWSTR" THEN [owner |-> "prop", w |-> prop.str]
  ELSE [owner |-> "static", w |-> default]

PropVariantToUInt32WithDefault(prop, default) ==
  IF prop.vt = "VT_UI4" THEN prop.num ELSE default

\* PropVariantClear frees the payload; it fails on a tag it does not know.
PropVariantClear(prop) == IF prop.vt = "VT_ILLEGAL" THEN {"Err"} ELSE {"Ok"}

\* PropVariantToStringVectorAlloc: fresh host copies of the elements, or an
\* error (no string representation, or the allocation failed).
PropVariantToStringVectorAlloc(prop) ==
  CASE prop.vt = "VT_VECTOR|VT_LPWSTR" ->
         {[hr |-> "Ok", elems |-> prop.vec], [hr |-> "Err", elems |-> <<>>]}
    [] prop.vt = "VT_LPWSTR" ->
         {[hr |-> "Ok", elems |-> <<prop.str>>], [hr |-> "Err", elems |-> <<>>]}
    [] prop.vt = "VT_EMPTY" ->
         {[hr |-> "Ok", elems |-> <<>>], [hr |-> "Err", elems |-> <<>>]}
    [] OTHER -> {[hr |-> "Err", elems |-> <<>>]}

\* InitPropVariantFromStringAsVector parses its argument as a ';' separated
\* list, trims each value and omits the empty ones; no value gives VT_EMPTY.
InitPropVariantFromStringAsVector(w) ==
  LET vals == DropEmpty(MapTrim(SplitAt(w, ";")))
  IN {[hr |-> "Ok", var |-> IF vals = <<>> THEN VEmpty ELSE VVec(vals)],
      [hr |-> "Err", var |-> VEmpty]}

InitPropVariantFromStringVector(ws) ==
  {[hr |-> "Ok", var |-> VVec(ws)], [hr |-> "Err", var |-> VEmpty]}

\* PSCoerceToCanonicalValue: strings are trimmed, empty values dropped, a
\* value left with nothing becomes VT_EMPTY; then the shape the key expects.
CanonicalList(var) ==
  CASE var.vt = "VT_VECTOR|VT_LPWSTR" -> DropEmpty(MapTrim(var.vec))
    [] var.vt = "VT_LPWSTR" -> DropEmpty(<<Trim(var.str)>>)
    [] OTHER -> <<>>
PSCoerceToCanonicalValue(key, var) ==
  LET list == CanonicalList(var)
      ok(v) == [hr |-> "Ok", var |-> v]
      err == [hr |-> "Err", var |-> VEmpty]
  IN CASE var.vt \in {"VT_UI4", "VT_ILLEGAL"} -> {err}
       [] list = <<>> -> {ok(VEmpty)}
       [] KeyType(key) = "StringVector" -> {ok(VVec(list))}
       [] KeyType(key) = "String" /\ Len(list) = 1 -> {ok(VStr(list[1]))}
       [] KeyType(key) = "String" -> {ok(VStr(JoinList(list))), err}
       [] OTHER -> {err}

\* What a read through a pointer into freed memory can return: the block's
\* old content, or what the allocator or a later owner wrote there since
\* (another string, or units that are no valid UTF-16).
ReusedBlocks == {<<"a">>, <<Surrogate>>}
FreedRead(w) == {w} \cup ReusedBlocks

\* ----------------------------------------------------------------- codec
\* Values returned to the caller (one record shape for all types).
RNone == [kind |-> "None", str |-> <<>>, num |-> 0, vec |-> <<>>]
RStr(s) == [kind |-> "String", str |-> s, num |-> 0, vec |-> <<>>]
RU32(n) == [kind |-> "u32", str |-> <<>>, num |-> n, vec |-> <<>>]
RVec(v) == [kind |-> "PropVector", str |-> <<>>, num |-> 0, vec |-> v]

\* What the codec does to memory, in the order the code does it: call is the
\* call made (a host allocation or free, Rust's dealloc, a read through a
\* pointer), obj the block it is made on, i the element's index (0: none).
\*   "prop"    the payload of the PROPVARIANT received or built
\*   "static"  a constant that is never freed (w!(""), the empty HSTRING)
\*   "array"   the array PropVariantToStringVectorAlloc allocates
\*   "elem"    the i-th string PropVariantToStringVectorAlloc allocates
\*   "hstring" the heap block of the HSTRING made for the i-th argument
Ev(call, obj, i) == [call |-> call, obj |-> obj, i |-> i]

RECURSIVE Concat(_)
Concat(ss) == IF ss = <<>> THEN <<>> ELSE Head(ss) \o Concat(Tail(ss))

Decoded(val) == [res |-> "Ok", val |-> val, mem |-> <<>>]
DecodePanic == [res |-> "Panic", val |-> RNone, mem |-> <<>>]
WithMem(r, mem) == [r EXCEPT !.mem = mem]

\* PWSTR::to_string: Err on invalid UTF-16.
PwstrToString(w) == IF ValidUtf16(w) THEN [ok |-> TRUE, s |-> w]
                    ELSE [ok |-> FALSE, s |-> <<>>]

\* impl FromPropVariant for String: the pointer is taken, the variant is
\* cleared (unwrap), and only then is the string read through the pointer.
FromPropVariantString(prop) ==
  LET ptr == PropVariantToStringWithDefault(prop, DEFAULT_PROP_STRING)
      reads == IF ptr.owner = "prop" THEN FreedRead(ptr.w) ELSE {ptr.w}
      clear == Ev("PropVariantClear", "prop", 0)
      read == Ev("read", ptr.owner, 0)
  IN UNION {
       IF c = "Err" THEN {WithMem(DecodePanic, <<clear>>)}
       ELSE {WithMem(Decoded(RStr(IF PwstrToString(w).ok THEN PwstrToString(w).s
                                  ELSE <<>>)),
                     <<clear, read>>) : w \in reads}
       : c \in PropVariantClear(prop)}

\* impl FromPropVariant for u32.
FromPropVariantU32(prop) ==
  LET n == PropVariantToUInt32WithDefault(prop, DEFAULT_PROP_U32)
  IN {WithMem(IF c = "Err" THEN DecodePanic ELSE Decoded(RU32(n)),
              <<Ev("PropVariantClear", "prop", 0)>>)
      : c \in PropVariantClear(prop)}

\* A vector decode that unwraps the conversion's result.
FromPropVariantPropVectorUnwrap(prop) ==
  {IF r.hr = "Err" \/ \E i \in 1..Len(r.elems) : ~PwstrToString(r.elems[i]).ok
   THEN DecodePanic
   ELSE Decoded(RVec(r.elems))
   : r \in PropVariantToStringVectorAlloc(prop)}

\* What the vector decode does to the blocks of a successful
\* PropVariantToStringVectorAlloc (lines 85-101).  The host allocates the
\* array and each element; Vec::from_raw_parts takes the array over.  Each
\* element is read by to_string and, when that returned Ok, freed with
\* CoTaskMemFree; an unwrap that panics ends the loop there.  ptr_vector is
\* dropped at the end of the scope, also when unwinding: a Vec of capacity
\* n > 0 frees its buffer with Rust's dealloc.  `prop` is never cleared.
FirstInvalid(elems) ==
  IF \A i \in 1..Len(elems) : PwstrToString(elems[i]).ok THEN Len(elems) + 1
  ELSE CHOOSE i \in 1..Len(elems) :
         /\ ~PwstrToString(elems[i]).ok
         /\ \A j \in 1..(i - 1) : PwstrToString(elems[j]).ok
PropVectorMem(elems) ==
  LET n == Len(elems)
      stop == FirstInvalid(elems)
      allocs == IF n = 0 THEN <<>>
                ELSE <<Ev("CoTaskMemAlloc", "array", 0)>>
                     \o [i \in 1..n |-> Ev("CoTaskMemAlloc", "elem", i)]
      each(i) == IF i < stop
                 THEN <<Ev("read", "elem", i), Ev("CoTaskMemFree", "elem", i)>>
                 ELSE IF i = stop THEN <<Ev("read", "elem", i)>> ELSE <<>>
      loop == Concat([i \in 1..n |-> each(i)])
      dropVec == IF n = 0 THEN <<>> ELSE <<Ev("dealloc", "array", 0)>>
  IN allocs \o loop \o dropVec

\* impl FromPropVariant for PropVector: an error gives the empty vector;
\* otherwise every element is converted with unwrap.
FromPropVariantPropVector(prop) ==
  {IF r.hr = "Err" THEN Decoded(RVec(<<>>))
   ELSE WithMem(IF \E i \in 1..Len(r.elems) : ~PwstrToString(r.elems[i]).ok
                THEN DecodePanic
                ELSE Decoded(RVec(r.elems)),
                PropVectorMem(r.elems))
   : r \in PropVariantToStringVectorAlloc(prop)}

DecodeTypes == {"String", "u32", "PropVector"}
FromPropVariant(type, prop) ==
  CASE type = "String" -> FromPropVariantString(prop)
    [] type = "u32" -> FromPropVariantU32(prop)
    [] type = "PropVector" -> FromPropVariantPropVector(prop)

\* HSTRING::from(s).as_wide().as_ptr(): the HSTRING is a temporary, freed at
\* the end of the statement, so the host reads the pointer after the free.
\* An empty HSTRING owns no heap block: its pointer is to a static "".
DanglingWide(s) == IF s = <<>> THEN {<<>>} ELSE FreedRead(s)

Encoded(var) == [res |-> "Ok", var |-> var, mem |-> <<>>]
EncodePanic == [res |-> "Panic", var |-> VEmpty, mem |-> <<>>]

\* The life of the HSTRING made for the i-th argument (lines 45, 54, 66): it
\* is a temporary of the statement that takes its pointer, so it is
\* allocated and freed in that statement.  The empty HSTRING has no block.
HstringTemporary(s, i) ==
  IF s = <<>> THEN <<>>
  ELSE <<Ev("alloc", "hstring", i), Ev("free", "hstring", i)>>
\* The host's constructor reads the string the i-th pointer points to.
HostRead(s, i) ==
  <<Ev("read", IF s = <<>> THEN "static" ELSE "hstring", i)>>

\* impl ToPropVariant for String and for &str (the same code).
ToPropVariantStr(s) ==
  UNION {{WithMem(IF r.hr = "Err" THEN EncodePanic ELSE Encoded(r.var),
                  HstringTemporary(s, 1) \o HostRead(s, 1))
          : r \in InitPropVariantFromStringAsVector(w)}
         : w \in DanglingWide(s)}

\* All ways to read every element of a vector of dangling pointers.
RECURSIVE DanglingVec(_)
DanglingVec(vs) ==
  IF vs = <<>> THEN {<<>>}
  ELSE {<<w>> \o rest : w \in DanglingWide(Head(vs)), rest \in DanglingVec(Tail(vs))}

\* impl ToPropVariant for Vec<&str>.
ToPropVariantVec(vs) ==
  UNION {{WithMem(IF r.hr = "Err" THEN EncodePanic ELSE Encoded(r.var),
                  Concat([i \in 1..Len(vs) |-> HstringTemporary(vs[i], i)])
                  \o Concat([i \in 1..Len(vs) |-> HostRead(vs[i], i)]))
          : r \in InitPropVariantFromStringVector(ws)}
         : ws \in DanglingVec(vs)}

\* Values set_prop accepts: a string (String or &str) or a Vec<&str>.
StrArg(s) == [type |-> "str", s |-> s, v |-> <<>>]
VecArg(v) == [type |-> "vec", s |-> <<>>, v |-> v]
SetArgs == {StrArg(s) : s \in RustStrings}
           \cup {VecArg(v) : v \in SeqsUpTo(RustStrings, MaxVec)}
ToPropVariant(arg) ==
  IF arg.type = "str" THEN ToPropVariantStr(arg.s) ELSE ToPropVariantVec(arg.v)

\* ----------------------------------------------------------------- state
VARIABLES
  fileProps,     \* the file's durable property values, by key
  sessions,      \* the FileProperties values, by construction order
  comEnters,     \* successful CoInitializeEx calls on the thread
  comExits,      \* CoUninitialize calls on the thread
  liveContexts,  \* IBindCtx handles created and not yet released
  liveStores,    \* IPropertyStore handles opened and not yet released
  last,          \* the last operation: arguments, result, host calls made
  budget,        \* operations the run may still make
  fileNote       \* history: the string whose set_prop and commit wrote the
                 \* file's String-typed property, when that is how it was written

vars == <<fileProps, sessions, comEnters, comExits, liveContexts, liveStores,
          last, budget, fileNote>>

Sids == 1..MaxSessions

NoProps == [k \in KnownNames |-> VEmpty]
WithProps ==
  [k \in KnownNames |->
     CASE KeyType(k) = "String" -> VStr(<<"a">>)
       [] KeyType(k) = "UInt32" -> VUI4(7)
       [] KeyType(k) = "StringVector" -> VVec(<< <<"a">>, <<"eacute">> >>)]
\* A file whose handler gives values the typed layer does not expect.
OddProps ==
  [k \in KnownNames |->
     CASE KeyType(k) = "String" -> VIllegal
       [] KeyType(k) = "UInt32" -> VStr(<<"a">>)
       [] KeyType(k) = "StringVector" -> VVec(<< <<Surrogate>> >>)]
InitialFiles == {NoProps, WithProps, OddProps}

\* History of the String-typed property: the string a caller gave, if any.
NoNote == [set |-> FALSE, s |-> <<>>]
Note(v) == [set |-> TRUE, s |-> v]

\* struct FileProperties, with what the store handle holds: the values it
\* shows (view) and the keys written since the last commit (dirty).  History:
\* wrote is the string staged by this session's set_prop for the String-typed
\* key, opened is the file's note when the session was opened (dropped once
\* the session stages its own value for that key).
NoSession == [state |-> "None", flag |-> "GPS_READWRITE", view |-> NoProps,
              dirty |-> {}, dropLog |-> <<>>, wrote |-> NoNote,
              opened |-> NoNote]
OpenSession(flag, file, note) ==
  [state |-> "Open", flag |-> flag, view |-> file, dirty |-> {},
   dropLog |-> <<>>, wrote |-> NoNote, opened |-> note]
\* A dropped session: the calls its destruction made, and (history) the keys
\* it had staged and not committed.
ClosedSession(log, sess) ==
  [NoSession EXCEPT !.state = "Closed", !.dropLog = log, !.dirty = sess.dirty]

HasFreeSid == \E s \in Sids : sessions[s].state = "None"
FreeSid == CHOOSE s \in Sids :
             /\ sessions[s].state = "None"
             /\ \A t \in Sids : t < s => sessions[t].state # "None"
LiveSessions == {s \in Sids : sessions[s].state = "Open"}

\* The record of an operation; mem is what its codec call did to memory (set
\* by get_prop and set_prop); again says that it repeats the operation
\* before it (the same one, on the same session) and that that one returned Ok.
Last(op, sid, arg, type, result, val, calls) ==
  [op |-> op, sid |-> sid, arg |-> arg, type |-> type, result |-> result,
   val |-> val, calls |-> calls, mem |-> <<>>,
   again |-> (last.op = op /\ last.sid = sid /\ last.result = "Ok")]

InitState ==
  /\ fileProps \in InitialFiles
  /\ sessions = [s \in Sids |-> NoSession]
  /\ comEnters = 0
  /\ comExits = 0
  /\ liveContexts = 0
  /\ liveStores = 0
  /\ last = [op |-> "none", sid |-> 0, arg |-> "", type |-> "", result |-> "Ok",
             val |-> RNone, calls |-> <<>>, mem |-> <<>>, again |-> FALSE]
  /\ fileNote = NoNote

Init == InitState /\ budget = MaxOps

\* ------------------------------------------- what the store handle does
\* A commit that writes the staged values and erases every other property.
CommitFlushErasesRest(file, sess) ==
  [k \in KnownNames |-> IF k \in sess.dirty THEN sess.view[k] ELSE VEmpty]

\* IPropertyStore::Commit writes the values staged since the last commit.
CommitFlush(file, sess) ==
  [k \in KnownNames |-> IF k \in sess.dirty THEN sess.view[k] ELSE file[k]]

\* ------------------------------------------------------ FileProperties::new
\* A new() that goes on to the host whatever the path.
PathExistsCheckSkipped(path) == TRUE

\* Line 125: the path is checked before anything is acquired.
PathExistsCheck(path) == Exists(path)

new(path, flag) ==
  /\ budget > 0
  /\ PathExistsCheck(path) => HasFreeSid
  /\ budget' = budget - 1
  /\ UNCHANGED <<fileProps, comExits, fileNote>>
  /\ IF ~PathExistsCheck(path)
     THEN /\ last' = Last("new", 0, path, flag, "NotFound", RNone, <<>>)
          /\ UNCHANGED <<sessions, comEnters, liveContexts, liveStores>>
     ELSE \E hInit \in CoInitializeEx, hCtx \in CreateBindCtx,
             hStore \in SHGetPropertyStoreFromParsingName(path) :
       IF hInit = "Err"
       THEN /\ last' = Last("new", 0, path, flag, "Err(CoInitializeEx)", RNone,
                            <<"CoInitializeEx">>)
            /\ UNCHANGED <<sessions, comEnters, liveContexts, liveStores>>
       ELSE IF hCtx = "Err"
       THEN \* `?` returns at once: nothing undoes CoInitializeEx
            /\ comEnters' = comEnters + 1
            /\ last' = Last("new", 0, path, flag, "Err(CreateBindCtx)", RNone,
                            <<"CoInitializeEx", "CreateBindCtx">>)
            /\ UNCHANGED <<sessions, liveContexts, liveStores>>
       ELSE IF hStore = "Err"
       THEN \* `?` returns at once: the local `context` is dropped (its
            \* handle released), nothing undoes CoInitializeEx
            /\ comEnters' = comEnters + 1
            /\ last' = Last("new", 0, path, flag,
                            "Err(SHGetPropertyStoreFromParsingName)", RNone,
                            <<"CoInitializeEx", "CreateBindCtx",
                              "SHGetPropertyStoreFromParsingName",
                              "IBindCtx::Release">>)
            /\ UNCHANGED <<sessions, liveContexts, liveStores>>
       ELSE /\ comEnters' = comEnters + 1
            /\ liveContexts' = liveContexts + 1
            /\ liveStores' = liveStores + 1
            /\ sessions' = [sessions EXCEPT
                 ![FreeSid] = OpenSession(EffectiveFlag(flag), fileProps, fileNote)]
            /\ last' = Last("new", FreeSid, path, flag, "Ok", RNone,
                            <<"CoInitializeEx", "CreateBindCtx",
                              "SHGetPropertyStoreFromParsingName">>)

\* --------------------------------------------------- impl Drop (180-187)
\* A Drop that commits what the session staged.
DropFileCommits(file, sess) == CommitFlush(file, sess)

\* The file as Drop leaves it: Drop makes no Commit call.
DropFile(file, sess) == file

\* drop() runs ReleaseBoundObjects().unwrap() and then CoUninitialize(); the
\* fields (props, then context) are dropped after the body, also when the
\* unwrap panics and the body is left by unwinding.
drop(s) ==
  /\ budget > 0
  /\ sessions[s].state = "Open"
  /\ budget' = budget - 1
  /\ fileProps' = DropFile(fileProps, sessions[s])
  /\ liveContexts' = liveContexts - 1
  /\ liveStores' = liveStores - 1
  /\ UNCHANGED <<comEnters, fileNote>>
  /\ \E hRel \in ReleaseBoundObjects :
       LET calls == IF hRel = "Ok"
                    THEN <<"ReleaseBoundObjects", "CoUninitialize",
                           "IPropertyStore::Release", "IBindCtx::Release">>
                    ELSE <<"ReleaseBoundObjects",
                           "IPropertyStore::Release", "IBindCtx::Release">>
       IN /\ comExits' = IF hRel = "Ok" THEN comExits + 1 ELSE comExits
          /\ sessions' = [sessions EXCEPT ![s] = ClosedSession(calls, sessions[s])]
          /\ last' = Last("drop", s, "", "", IF hRel = "Ok" THEN "Ok" ELSE "Panic",
                          RNone, calls)

\* ------------------------------------------------ get_prop_count (148-150)
PropCount(view) == Cardinality({k \in KnownNames : view[k].vt # "VT_EMPTY"})

\* A get_prop_count that reloads the store from the file before it counts,
\* discarding the values staged and not committed.
get_prop_countReloads(s) ==
  /\ budget > 0
  /\ sessions[s].state = "Open"
  /\ budget' = budget - 1
  /\ sessions' = [sessions EXCEPT ![s].view = fileProps, ![s].dirty = {}]
  /\ UNCHANGED <<fileProps, comEnters, comExits, liveContexts, liveStores,
                 fileNote>>
  /\ \E h \in GetCount :
       last' = IF h = "Ok"
               THEN Last("get_prop_count", s, "", "", "Ok",
                         RU32(PropCount(fileProps)), <<"GetCount">>)
               ELSE Last("get_prop_count", s, "", "", "Panic", RNone,
                         <<"GetCount">>)

get_prop_count(s) ==
  /\ budget > 0
  /\ sessions[s].state = "Open"
  /\ budget' = budget - 1
  /\ UNCHANGED <<fileProps, sessions, comEnters, comExits, liveContexts,
                 liveStores, fileNote>>
  /\ \E h \in GetCount :
       last' = IF h = "Ok"
               THEN Last("get_prop_count", s, "", "", "Ok",
                         RU32(PropCount(sessions[s].view)), <<"GetCount">>)
               ELSE Last("get_prop_count", s, "", "", "Panic", RNone,
                         <<"GetCount">>)

\* ------------------------------------------------------ get_prop (152-160)
\* What get_prop can return: the first failing `?` ends it; the decode
\* cannot return an error, but its unwraps can panic.
Returned(result, val, calls) ==
  [result |-> result, val |-> val, calls |-> calls, mem |-> <<>>]

GetPropOutcomes(sess, type, name) ==
  UNION {
    IF hKey = "Err"
    THEN {Returned("Err(PSGetPropertyKeyFromName)", RNone,
                   <<"PSGetPropertyKeyFromName">>)}
    ELSE IF hGet = "Err"
    THEN {Returned("Err(GetValue)", RNone,
                   <<"PSGetPropertyKeyFromName", "GetValue">>)}
    ELSE {WithMem(Returned(d.res, d.val, <<"PSGetPropertyKeyFromName",
                                            "GetValue", "from_prop_variant">>),
                  d.mem)
          : d \in FromPropVariant(type, sess.view[name])}
    : hKey \in PSGetPropertyKeyFromName(name), hGet \in GetValue}

get_prop(s, type, name) ==
  /\ budget > 0
  /\ sessions[s].state = "Open"
  /\ budget' = budget - 1
  /\ UNCHANGED <<fileProps, sessions, comEnters, comExits, liveContexts,
                 liveStores, fileNote>>
  /\ \E o \in GetPropOutcomes(sessions[s], type, name) :
       last' = WithMem(Last("get_prop", s, name, type, o.result, o.val, o.calls),
                       o.mem)

\* ------------------------------------------------------ set_prop (162-172)
\* IPropertyStore::SetValue stages the value in the store handle.
Staged(sess, key, var) ==
  [sess EXCEPT !.view[key] = var, !.dirty = @ \cup {key}]

\* History kept beside a staged value: which string the caller gave.
Noted(sess, key, arg) ==
  IF KeyType(key) # "String" THEN sess
  ELSE [sess EXCEPT !.opened = NoNote,
                    !.wrote = IF arg.type = "str" THEN Note(arg.s) ELSE NoNote]

\* What set_prop can do: its result, the host calls made, the session after.
SetDone(result, calls, sess) ==
  [result |-> result, calls |-> calls, sess |-> sess, mem |-> <<>>]

\* A set_prop that ignores the result of the coercion and writes the encoded
\* value to the store before it returns the coercion's error.
SetPropOutcomesWriteUnchecked(sess, name, arg) ==
  UNION {
    IF hKey = "Err"
    THEN {SetDone("Err(PSGetPropertyKeyFromName)",
                  <<"PSGetPropertyKeyFromName">>, sess)}
    ELSE IF enc.res = "Panic"
    THEN {SetDone("Panic", <<"PSGetPropertyKeyFromName", "to_prop_variant">>,
                  sess)}
    ELSE UNION {
      {IF co.hr = "Err"
       THEN SetDone("Err(PSCoerceToCanonicalValue)",
                    <<"PSGetPropertyKeyFromName", "to_prop_variant",
                      "PSCoerceToCanonicalValue", "SetValue">>,
                    Staged(sess, name, enc.var))
       ELSE IF hSet = "Err"
       THEN SetDone("Err(SetValue)",
                    <<"PSGetPropertyKeyFromName", "to_prop_variant",
                      "PSCoerceToCanonicalValue", "SetValue">>, sess)
       ELSE SetDone("Ok",
                    <<"PSGetPropertyKeyFromName", "to_prop_variant",
                      "PSCoerceToCanonicalValue", "SetValue">>,
                    Noted(Staged(sess, name, co.var), name, arg))
       : hSet \in SetValue(sess.flag)}
      : co \in IF name \in KnownNames
               THEN PSCoerceToCanonicalValue(name, enc.var) ELSE {}}
    : hKey \in PSGetPropertyKeyFromName(name), enc \in ToPropVariant(arg)}

SetPropOutcomes(sess, name, arg) ==
  UNION {
    IF hKey = "Err"
    THEN {SetDone("Err(PSGetPropertyKeyFromName)",
                  <<"PSGetPropertyKeyFromName">>, sess)}
    ELSE IF enc.res = "Panic"
    THEN {WithMem(SetDone("Panic",
                          <<"PSGetPropertyKeyFromName", "to_prop_variant">>,
                          sess), enc.mem)}
    ELSE UNION {
      IF co.hr = "Err"
      THEN {WithMem(SetDone("Err(PSCoerceToCanonicalValue)",
                            <<"PSGetPropertyKeyFromName", "to_prop_variant",
                              "PSCoerceToCanonicalValue">>, sess), enc.mem)}
      ELSE {WithMem(
              IF hSet = "Err"
              THEN SetDone("Err(SetValue)",
                           <<"PSGetPropertyKeyFromName", "to_prop_variant",
                             "PSCoerceToCanonicalValue", "SetValue">>, sess)
              ELSE SetDone("Ok",
                           <<"PSGetPropertyKeyFromName", "to_prop_variant",
                             "PSCoerceToCanonicalValue", "SetValue">>,
                           Noted(Staged(sess, name, co.var), name, arg)),
              enc.mem)
            : hSet \in SetValue(sess.flag)}
      : co \in IF name \in KnownNames
               THEN PSCoerceToCanonicalValue(name, enc.var) ELSE {}}
    : hKey \in PSGetPropertyKeyFromName(name), enc \in ToPropVariant(arg)}

set_prop(s, name, arg) ==
  /\ budget > 0
  /\ sessions[s].state = "Open"
  /\ budget' = budget - 1
  /\ UNCHANGED <<fileProps, comEnters, comExits, liveContexts, liveStores,
                 fileNote>>
  /\ \E o \in SetPropOutcomes(sessions[s], name, arg) :
       /\ sessions' = [sessions EXCEPT ![s] = o.sess]
       /\ last' = WithMem(Last("set_prop", s, name, arg.type, o.result, RNone,
                               o.calls), o.mem)

\* -------------------------------------------------------- commit (174-177)
commit(s) ==
  /\ budget > 0
  /\ sessions[s].state = "Open"
  /\ budget' = budget - 1
  /\ UNCHANGED <<comEnters, comExits, liveContexts, liveStores>>
  /\ \E h \in Commit(sessions[s].flag) :
       IF h = "Err"
       THEN /\ last' = Last("commit", s, "", "", "Err(Commit)", RNone,
                            <<"Commit">>)
            /\ UNCHANGED <<fileProps, sessions, fileNote>>
       ELSE /\ fileProps' = CommitFlush(fileProps, sessions[s])
            /\ fileNote' = IF \E k \in sessions[s].dirty : KeyType(k) = "String"
                           THEN sessions[s].wrote ELSE fileNote
            /\ sessions' = [sessions EXCEPT ![s].dirty = {}]
            /\ last' = Last("commit", s, "", "", "Ok", RNone, <<"Commit">>)

\* ------------------------------------------------------------------ spec
Next ==
  \/ \E path \in Paths, flag \in FlagArgs : new(path, flag)
  \/ \E s \in Sids : drop(s)
  \/ \E s \in Sids : get_prop_count(s)
  \/ \E s \in Sids, type \in DecodeTypes, name \in Names : get_prop(s, type, name)
  \/ \E s \in Sids, name \in Names, arg \in SetArgs : set_prop(s, name, arg)
  \/ \E s \in Sids : commit(s)

Spec == Init /\ [][Next]_vars

\* The scenario of tests::sets_props (229-260): string values written to and
\* read from the String-typed property of the existing file, default flags.
StringNames == {k \in KnownNames : KeyType(k) = "String"}
InitRoundTrip == InitState /\ budget = MaxOpsRoundTrip
NextRoundTrip ==
  \/ \E path \in ExistingPaths : new(path, "None")
  \/ \E s \in Sids : drop(s)
  \/ \E s \in Sids : get_prop_count(s)
  \/ \E s \in Sids, name \in StringNames : get_prop(s, "String", name)
  \/ \E s \in Sids, name \in StringNames, v \in RustStrings :
       set_prop(s, name, StrArg(v))
  \/ \E s \in Sids : commit(s)

SpecRoundTrip == InitRoundTrip /\ [][NextRoundTrip]_vars

\* ---------------------------------------------------------------- claims
\* A step that is one operation of the program.
OpStep == budget' = budget - 1

Created == {s \in Sids : sessions[s].state # "None"}
EnteredThenFailed == {"Err(CreateBindCtx)", "Err(SHGetPropertyStoreFromParsingName)"}

\* C1: new() on a path that does not exist returns NotFound and acquires
\* nothing on that call: no host call is made, the counts of entered
\* environments and of live handles stay as they were, no session appears.
C1_NotFoundAcquiresNothing ==
  [][(OpStep /\ last'.op = "new" /\ ~Exists(last'.arg)) =>
       /\ last'.result = "NotFound"
       /\ last'.calls = <<>>
       /\ comEnters' = comEnters
       /\ comExits' = comExits
       /\ liveContexts' = liveContexts
       /\ liveStores' = liveStores
       /\ sessions' = sessions]_vars

\* C1 witness: two operations were run, the last a failed open of the missing
\* path, and the thread never entered the environment.
C1_Witness ==
  /\ last.op = "new"
  /\ ~Exists(last.arg)
  /\ last.result = "NotFound"
  /\ budget = MaxOps - 2
  /\ comEnters = 0
  /\ liveContexts = 0
  /\ liveStores = 0

\* C2: an open that fails after the threading environment was entered has
\* exited it again before it returns, and holds no binding context: the
\* failed call leaves enters - exits, and the live handles, as they were.
C2_FailedOpenReleases ==
  [][(OpStep /\ last'.op = "new" /\ last'.result \in EnteredThenFailed) =>
       /\ comEnters' - comExits' = comEnters - comExits
       /\ liveContexts' = liveContexts
       /\ liveStores' = liveStores]_vars

\* C3: when every open that entered the environment returned a session,
\* exits never exceed enters and enters - exits is the number of live
\* sessions (zero once all are destroyed).
C3_EntersMatchLiveSessions ==
  /\ comExits <= comEnters
  /\ comEnters = Cardinality(Created) =>
       comEnters - comExits = Cardinality(LiveSessions)

\* C4: a destroyed session's destruction released the bound objects and then
\* exited the threading environment, each exactly once, in that order; a
\* session not destroyed has run neither step.
ReleaseThenExit(log) ==
  SelectSeq(log, LAMBDA c : c \in {"ReleaseBoundObjects", "CoUninitialize"})
C4_ReleaseThenExitOnce ==
  \A s \in Sids :
    /\ sessions[s].state = "Closed" =>
         ReleaseThenExit(sessions[s].dropLog) =
           <<"ReleaseBoundObjects", "CoUninitialize">>
    /\ sessions[s].state # "Closed" => sessions[s].dropLog = <<>>

\* C5: when set_prop(name, v) of a string v and then commit() succeeded, a
\* session opened afterwards returns exactly v from get_prop::<String>(name)
\* (name a String-typed property; the store's read itself succeeding).
C5_RoundTrip ==
  (/\ last.op = "get_prop"
   /\ last.type = "String"
   /\ last.arg \in StringNames
   /\ sessions[last.sid].opened.set
   /\ last.result # "Err(GetValue)")
  => /\ last.result = "Ok"
     /\ last.val = RStr(sessions[last.sid].opened.s)

\* C6: get_prop of a property the store holds no value for (it returns an
\* empty variant) returns Ok with "" for String, 0 for u32 and the empty
\* vector for PropVector, whatever the vector conversion reports.
AbsentDefault(type) ==
  CASE type = "String" -> RStr(<<>>)
    [] type = "u32" -> RU32(0)
    [] type = "PropVector" -> RVec(<<>>)
ReadAbsent ==
  /\ last.op = "get_prop"
  /\ last.arg \in KnownNames
  /\ last.result \notin {"Err(PSGetPropertyKeyFromName)", "Err(GetValue)"}
  /\ sessions[last.sid].view[last.arg].vt = "VT_EMPTY"
C6_DecodeDefault ==
  ReadAbsent => last.result = "Ok" /\ last.val = AbsentDefault(last.type)

\* C6 witness: a string vector was read from a file without properties.
C6_Witness ==
  /\ ReadAbsent
  /\ last.type = "PropVector"
  /\ last.val = RVec(<<>>)
  /\ fileProps = NoProps

\* C7: once the name is resolved and the store's read succeeded, get_prop
\* returns a value: its only failures are those two calls.
C7_DecodeNeverFails ==
  last.op = "get_prop" =>
    last.result \in {"Ok", "Err(PSGetPropertyKeyFromName)", "Err(GetValue)"}

\* C8: when the host's variant constructor fails in set_prop's encoding (the
\* encoding is the last call made), set_prop returns an error value, not Ok
\* and not a panic, and the session is as it was.
EncodeFailed(l) ==
  /\ l.op = "set_prop"
  /\ l.calls = <<"PSGetPropertyKeyFromName", "to_prop_variant">>
C8_EncodeFailurePropagates ==
  [][(OpStep /\ EncodeFailed(last')) =>
       /\ last'.result \notin {"Ok", "Panic"}
       /\ sessions' = sessions]_vars

CommitAfterCommit == OpStep /\ last'.op = "commit" /\ last'.again
C10_CommitTwiceSucceeds ==
  [][CommitAfterCommit => last'.result = "Ok" /\ fileProps' = fileProps]_vars

\* C10 amended: a commit() right after a commit() that returned Ok on the
\* same session leaves the file's durable values as the first left them,
\* whether it returns Ok or the host's error.
C10_CommitTwiceSameFile ==
  [][CommitAfterCommit => fileProps' = fileProps]_vars

\* C10 witness: a string was set and committed, and the commit was repeated
\* and returned Ok.
C10_Witness ==
  /\ last.op = "commit"
  /\ last.again
  /\ last.result = "Ok"
  /\ fileNote.set
  /\ fileNote.s # <<>>

\* Reading the record of what a codec call did to memory.
Occurrences(mem, e) == Cardinality({j \in DOMAIN mem : mem[j] = e})
OnBlock(e, obj, i) == e.obj = obj /\ e.i = i
FreeCalls == {"PropVariantClear", "CoTaskMemFree", "dealloc", "free"}
\* get_prop reached the decoder (the name resolved, the store's read succeeded).
DecodeRan == last.op = "get_prop" /\ Len(last.calls) = 3

\* C11: when get_prop returns a decoded value, of any of the three types, the
\* variant received from the store's GetValue was cleared exactly once.
C11_ClearedExactlyOnce ==
  (DecodeRan /\ last.result = "Ok") =>
    Occurrences(last.mem, Ev("PropVariantClear", "prop", 0)) = 1

\* C12: the String decode never reads memory owned by the variant after the
\* variant was cleared: every read of it comes before the PropVariantClear.
C12_CopyBeforeClear ==
  (DecodeRan /\ last.type = "String") =>
    \A i, j \in DOMAIN last.mem :
      (i < j /\ last.mem[i] = Ev("PropVariantClear", "prop", 0))
        => last.mem[j] # Ev("read", "prop", 0)

\* C13: in a vector decode every block the host allocated (each element, and
\* the array) is freed exactly once, by the host's CoTaskMemFree, after it was
\* read, and the array after every element was read; this also when an
\* element's conversion fails part-way.
C13_VectorBlocksFreedOnce ==
  (DecodeRan /\ last.type = "PropVector") =>
    \A a \in DOMAIN last.mem :
      last.mem[a].call = "CoTaskMemAlloc" =>
        LET frees == {j \in DOMAIN last.mem :
                        /\ OnBlock(last.mem[j], last.mem[a].obj, last.mem[a].i)
                        /\ last.mem[j].call \in FreeCalls}
        IN /\ Cardinality(frees) = 1
           /\ \A j \in frees :
                /\ last.mem[j].call = "CoTaskMemFree"
                /\ \A r \in DOMAIN last.mem :
                     (last.mem[r].call = "read"
                      /\ (last.mem[a].obj = "array"
                          \/ OnBlock(last.mem[r], last.mem[a].obj, last.mem[a].i)))
                       => r < j

\* C14: in set_prop's encoding, every block the host's variant constructor
\* reads through a pointer it was given is not yet freed when it is read.
C14_BuffersAliveInConstructor ==
  last.op = "set_prop" =>
    \A i, j \in DOMAIN last.mem :
      (i < j /\ last.mem[j].call = "read")
        => ~(last.mem[i].call \in FreeCalls
             /\ OnBlock(last.mem[i], last.mem[j].obj, last.mem[j].i))

\* C15: set_prop makes its calls in the order resolve, encode, coerce, write
\* and stops at the first that fails: when the name does not resolve, or the
\* coercion fails, it returns that error, SetValue is not called and the
\* session's staged values are as they were; only a set_prop that called
\* SetValue and returned Ok changes them.
SetSteps == <<"PSGetPropertyKeyFromName", "to_prop_variant",
              "PSCoerceToCanonicalValue", "SetValue">>
C15_SetStopsAtFirstFailure ==
  [][(OpStep /\ last'.op = "set_prop") =>
       /\ Len(last'.calls) \in 1..4
       /\ last'.calls = SubSeq(SetSteps, 1, Len(last'.calls))
       /\ last'.arg \notin KnownNames => Len(last'.calls) = 1
       /\ Len(last'.calls) = 1 =>
            last'.result = "Err(PSGetPropertyKeyFromName)" /\ sessions' = sessions
       /\ Len(last'.calls) = 3 =>
            last'.result = "Err(PSCoerceToCanonicalValue)" /\ sessions' = sessions
       /\ last'.result = "Ok" => Len(last'.calls) = 4
       /\ sessions' # sessions => last'.result = "Ok"]_vars

\* C15 witness: a session that holds a staged value ran a set_prop whose
\* coercion failed, after the name resolved and the value was encoded.
C15_Witness ==
  /\ last.op = "set_prop"
  /\ last.result = "Err(PSCoerceToCanonicalValue)"
  /\ last.calls = SubSeq(SetSteps, 1, 3)
  /\ sessions[last.sid].state = "Open"
  /\ sessions[last.sid].dirty # {}

\* C16: a destroyed session released its store handle and its binding
\* context handle before it exited the threading environment: no handle
\* release follows CoUninitialize in the calls of its destruction.
HandleReleases == {"IPropertyStore::Release", "IBindCtx::Release"}
C16_HandlesReleasedBeforeExit ==
  \A s \in Sids :
    sessions[s].state = "Closed" =>
      \A i, j \in DOMAIN sessions[s].dropLog :
        (sessions[s].dropLog[i] = "CoUninitialize"
         /\ sessions[s].dropLog[j] \in HandleReleases) => j < i

\* C17: every destroyed session exited the threading environment exactly
\* once, whatever ReleaseBoundObjects reported.
DropCalls(s, call) ==
  Cardinality({i \in DOMAIN sessions[s].dropLog : sessions[s].dropLog[i] = call})
C17_ExitUnconditional ==
  \A s \in Sids :
    sessions[s].state = "Closed" => DropCalls(s, "CoUninitialize") = 1

\* C18: get_prop and get_prop_count change neither the file's durable values
\* nor any session's staged values; get_prop_count returns the count of the
\* values the session's store shows, so a get_prop_count right after one that
\* returned a count returns the same count.
ReadOps == {"get_prop", "get_prop_count"}
C18_ReadsLeaveStore ==
  [][(OpStep /\ last'.op \in ReadOps) =>
       /\ fileProps' = fileProps
       /\ sessions' = sessions
       /\ (last'.op = "get_prop_count" /\ last'.result = "Ok") =>
            /\ last'.val = RU32(PropCount(sessions[last'.sid].view))
            /\ last'.again => last'.val = last.val]_vars

\* C18 witness: a session with a value staged and not committed returned a
\* count of at least one from two get_prop_count calls in a row.
C18_Witness ==
  /\ last.op = "get_prop_count"
  /\ last.again
  /\ last.result = "Ok"
  /\ last.val.num > 0
  /\ sessions[last.sid].dirty # {}

====
